---- MODULE Spec2Model ----
(***************************************************************************)
(* Model of menuJoy.py: the joystick control loop of the Tiny 4WD robot    *)
(* with its OLED menu.  One action per step of the control loop driver:    *)
(* a successful device acquisition, a failed one with its back-off, one    *)
(* tick of the `while joystick.connected` body, the loop leaving on a      *)
(* disconnect, and the two halves of the RobotStopException handler        *)
(* (before and after its sleep(1)).                                        *)
(*                                                                         *)
(* Time is counted in whole seconds.  time() is read once per tick: the    *)
(* value read is the previous reading plus the tick's input dt, and every  *)
(* time() call of the same tick returns that value.                        *)
(* The state is what one tick hands to the next: x_axis, y_axis,           *)
(* power_left and power_right are assigned in every tick before they are   *)
(* read, oldMode and lastBatteryTime are never read, and updateDisplay()   *)
(* copies the image buffer (line1, line2) to the screen and changes no     *)
(* variable of the program; none of these is a variable of the model.      *)
(* Indices (menuIndex, mode, ...) are 0-based as in the program; Item(i)   *)
(* is menuItems[i] of the program.                                         *)
(***************************************************************************)
EXTENDS Integers, Sequences, FiniteSets

VARIABLES
  pc,                    \* position of the control loop driver
  menu,                  \* menu: mode name -> flag
  currentMenu,           \* snapshot of menu taken when the menu is opened
  menuIndex,             \* cursor
  lastMenuIndex,         \* cursor position last rendered
  menuFlag,              \* the menu is open
  mode,                  \* index of the selected mode
  displayTimeOut,
  displayTimeOutFlag,    \* a display deadline is pending
  savedTime,
  currentTime,
  newModeFlag,
  lastRefresh,
  displayHomeScreenFlag,
  motors,                \* last command given to set_speeds / stop_motors
  line1, line2,          \* text drawn into the image buffer
  osAction,              \* last "sudo ..." command invoked
  selectPress            \* the user pressed select during the last tick or
                         \* back-off (kept while the stop handler runs)

vars == <<pc, menu, currentMenu, menuIndex, lastMenuIndex, menuFlag, mode,
          displayTimeOut, displayTimeOutFlag, savedTime, currentTime, newModeFlag,
          lastRefresh, displayHomeScreenFlag, motors, line1, line2, osAction,
          selectPress>>

----------------------------------------------------------------------------
(* Bounds of the model *)

\* the clock stops being advanced at MaxTime
MaxTime == 3

(* Program constants *)

refreshTime == 60
max_power == 100
\* axis values are multiples of 1/AxisDen: -1.0 is -AxisDen, 1.0 is AxisDen
AxisDen == 4

menuItems == <<"Manual", "Line", "Maze", "Toxic", "Zombie", "IP", "Exit",
               "Shutdown", "Reboot">>
menuLenght == Len(menuItems)
Modes == {menuItems[i] : i \in 1..menuLenght}
Item(i) == menuItems[i + 1]

(* Inputs *)

Buttons == {"select", "home", "dup", "ddown", "circle", "cross"}
\* buttons newly pressed in one tick: none, each button alone, and the pairs whose
\* handlers of the loop body meet in one pass
ButtonPairs == {{"home", "circle"}, {"select", "circle"}, {"dup", "ddown"},
                {"circle", "cross"}}
PressSets == {{}} \cup {{b} : b \in Buttons} \cup ButtonPairs
\* (yaw, throttle) samples read in a tick
AxisSamples == {<<0, 0>>, <<AxisDen, AxisDen>>}
\* seconds between two readings of time()
Steps == {0, 2, 3}
\* output of bat_check.py, without its newline
BatReadings == {<<"7", ".", "9", "5">>}
\* joystick.battery_level, and str(level * 100) for the levels that are numbers
JoyLevels == {"None", "1.0"}
Percent(level) == CASE level = "1.0" -> "100.0" [] level = "0.5" -> "50.0"
IPReadings == {<<"192.168.0.2">>}

----------------------------------------------------------------------------
(* The mixer *)

Abs(v) == IF v < 0 THEN -v ELSE v
Max3(a, b, c) == IF a >= b /\ a >= c THEN a ELSE IF b >= c THEN b ELSE c
\* int(): truncation toward zero of n/d, d > 0
TruncDiv(n, d) == IF n >= 0 THEN n \div d ELSE -((-n) \div d)

\* mixer without the division by max(1, |left|, |right|) (line 132)
mixer_NoScale(yaw, throttle, maxp) ==
  <<TruncDiv((throttle + yaw) * maxp, AxisDen), TruncDiv((throttle - yaw) * maxp, AxisDen)>>

\* mixer(yaw, throttle, max_power) with the axes in units of 1/AxisDen:
\* left*scale = (l/AxisDen) * maxp / max(1, |l|/AxisDen, |r|/AxisDen)
\* (the integer arithmetic gives the results of the float arithmetic for AxisDen 2, 3, 4)
mixer(yaw, throttle, maxp) ==
  LET left == throttle + yaw
      right == throttle - yaw
      m == Max3(AxisDen, Abs(left), Abs(right))
  IN  <<TruncDiv(left * maxp, m), TruncDiv(right * maxp, m)>>

StopCmd == <<"stop">>
SetCmd(power) == <<"set", power[1], power[2]>>

\* DriveCommand without the test of menu['Manual'] (line 245)
DriveCommand_IgnoresMode(power, manual) ==
  IF power[1] = 0 /\ power[2] = 0 THEN StopCmd ELSE SetCmd(power)

\* lines 243-248: the command of the drive arbitration
DriveCommand(power, manual) ==
  IF power[1] = 0 /\ power[2] = 0 THEN StopCmd
  ELSE IF manual THEN SetCmd(power)
  ELSE StopCmd

----------------------------------------------------------------------------
(* Display *)

Blank == <<>>
AllFalse == [k \in Modes |-> FALSE]
Only(name) == [k \in Modes |-> k = name]

clearDisplay(s) == [s EXCEPT !.line1 = Blank, !.line2 = Blank]
lineOneText(s, text) == [s EXCEPT !.line1 = text]
lineTwoText(s, text) == [s EXCEPT !.line2 = text]

\* homeDisplayUpdate(): the two status lines
homeDisplayUpdate(s, bat, joy) ==
  LET mainBattery == IF Len(bat) = 4 THEN bat \o <<"0">> ELSE bat
      text1 == <<"Batt: ">> \o mainBattery \o <<"V">>
      text2 == IF joy # "None" THEN <<"Joy: ", Percent(joy), "%">>
               ELSE <<"Joy: Not supported">>
  IN  lineTwoText(lineOneText(s, text1), text2)

----------------------------------------------------------------------------
(* One tick, as steps on the record s of the program's variables.          *)
(* s.exc is "none", or the exception that left the tick: "stop"            *)
(* (RobotStopException) or "error" (CalledProcessError of a query).        *)

State ==
  [menu |-> menu, currentMenu |-> currentMenu, menuIndex |-> menuIndex,
   lastMenuIndex |-> lastMenuIndex, menuFlag |-> menuFlag, mode |-> mode,
   displayTimeOut |-> displayTimeOut,
   displayTimeOutFlag |-> displayTimeOutFlag, savedTime |-> savedTime,
   currentTime |-> currentTime, newModeFlag |-> newModeFlag,
   lastRefresh |-> lastRefresh, displayHomeScreenFlag |-> displayHomeScreenFlag,
   line1 |-> line1, line2 |-> line2, osAction |-> osAction, motors |-> motors,
   exc |-> "none"]

\* lines 238-248: the axes are read and mixed, one command goes to the motors
DriveStep(s, axes) ==
  [s EXCEPT !.motors = DriveCommand(mixer(axes[1], axes[2], max_power),
                                    s.menu["Manual"])]

\* HomePress without the snapshot of line 276
HomePress_NoSnapshot(s) ==
  LET c == clearDisplay(s)
  IN  IF c.menuFlag
      THEN [c EXCEPT !.menuFlag = FALSE, !.menu = c.currentMenu,
                     !.displayHomeScreenFlag = TRUE]
      ELSE LET text == IF c.menu[Item(c.mode)] THEN <<"MODE: ", Item(c.mode)>>
                       ELSE <<"No mode selected">>
           IN  [lineOneText(c, text) EXCEPT !.menuFlag = TRUE, !.menu = AllFalse]

\* HomePress without the restore of line 269
HomePress_NoRestore(s) ==
  LET c == clearDisplay(s)
  IN  IF c.menuFlag
      THEN [c EXCEPT !.menuFlag = FALSE, !.displayHomeScreenFlag = TRUE]
      ELSE LET text == IF c.menu[Item(c.mode)] THEN <<"MODE: ", Item(c.mode)>>
                       ELSE <<"No mode selected">>
           IN  [lineOneText(c, text) EXCEPT !.currentMenu = c.menu, !.menuFlag = TRUE,
                                            !.menu = AllFalse]

\* HomePress without the deactivation of lines 286-287
HomePress_KeepsModes(s) ==
  LET c == clearDisplay(s)
  IN  IF c.menuFlag
      THEN [c EXCEPT !.menuFlag = FALSE, !.menu = c.currentMenu,
                     !.displayHomeScreenFlag = TRUE]
      ELSE LET text == IF c.menu[Item(c.mode)] THEN <<"MODE: ", Item(c.mode)>>
                       ELSE <<"No mode selected">>
           IN  [lineOneText(c, text) EXCEPT !.currentMenu = c.menu, !.menuFlag = TRUE]

\* lines 263-287: home toggles the menu
HomePress(s) ==
  LET c == clearDisplay(s)
  IN  IF c.menuFlag
      THEN [c EXCEPT !.menuFlag = FALSE, !.menu = c.currentMenu,
                     !.displayHomeScreenFlag = TRUE]
      ELSE LET text == IF c.menu[Item(c.mode)] THEN <<"MODE: ", Item(c.mode)>>
                       ELSE <<"No mode selected">>
           IN  [lineOneText(c, text) EXCEPT !.currentMenu = c.menu, !.menuFlag = TRUE,
                                            !.menu = AllFalse]

\* DupPress without the test of menuFlag (line 296)
DupPress_Always(s) ==
  [s EXCEPT !.menuIndex = IF s.menuIndex - 1 < 0 THEN menuLenght - 1
                          ELSE s.menuIndex - 1]

\* lines 296-299
DupPress(s) ==
  IF s.menuFlag
  THEN [s EXCEPT !.menuIndex = IF s.menuIndex - 1 < 0 THEN menuLenght - 1
                               ELSE s.menuIndex - 1]
  ELSE s

\* DdownPress wrapping one item early
DdownPress_WrapsEarly(s) ==
  IF s.menuFlag
  THEN [s EXCEPT !.menuIndex = IF s.menuIndex + 1 >= menuLenght - 1 THEN 0
                               ELSE s.menuIndex + 1]
  ELSE s

\* lines 303-306
DdownPress(s) ==
  IF s.menuFlag
  THEN [s EXCEPT !.menuIndex = IF s.menuIndex + 1 = menuLenght THEN 0
                               ELSE s.menuIndex + 1]
  ELSE s

\* CirclePress committing the old mode instead of the cursor (line 312)
CirclePress_KeepsMode(s, now) ==
  IF s.menuFlag
  THEN [s EXCEPT !.menuFlag = FALSE, !.newModeFlag = TRUE,
                 !.menu = Only(Item(s.mode)), !.savedTime = now,
                 !.displayTimeOutFlag = TRUE, !.displayTimeOut = 2]
  ELSE s

\* CirclePress without the assignment to mode (line 312)
CirclePress_NoModeUpdate(s, now) ==
  IF s.menuFlag
  THEN [s EXCEPT !.menuFlag = FALSE, !.newModeFlag = TRUE,
                 !.menu = Only(Item(s.menuIndex)), !.savedTime = now,
                 !.displayTimeOutFlag = TRUE, !.displayTimeOut = 2]
  ELSE s

\* lines 310-323
CirclePress(s, now) ==
  IF s.menuFlag
  THEN [s EXCEPT !.mode = s.menuIndex, !.menuFlag = FALSE,
                 !.newModeFlag = TRUE, !.menu = Only(Item(s.menuIndex)),
                 !.savedTime = now, !.displayTimeOutFlag = TRUE, !.displayTimeOut = 2]
  ELSE s

\* lines 329-335
RenderCursor(s) ==
  IF s.lastMenuIndex # s.menuIndex /\ s.menuFlag
  THEN [lineTwoText(lineOneText(s, <<Item(s.menuIndex)>>), <<"'O' to select">>)
          EXCEPT !.lastMenuIndex = s.menuIndex]
  ELSE s

\* ButtonStep with select honoured only while the menu is closed
ButtonStep_SelectWhenClosed(s, presses, now) ==
  IF presses = {} THEN s
  ELSE IF "select" \in presses /\ ~s.menuFlag THEN [s EXCEPT !.exc = "stop"]
  ELSE LET a == IF "home" \in presses THEN HomePress(s) ELSE s
           b == IF "dup" \in presses THEN DupPress(a) ELSE a
           c == IF "ddown" \in presses THEN DdownPress(b) ELSE b
           d == IF "circle" \in presses THEN CirclePress(c, now) ELSE c
       IN  RenderCursor(d)

\* lines 251-335
ButtonStep(s, presses, now) ==
  IF presses = {} THEN s
  ELSE IF "select" \in presses THEN [s EXCEPT !.exc = "stop"]
  ELSE LET a == IF "home" \in presses THEN HomePress(s) ELSE s
           b == IF "dup" \in presses THEN DupPress(a) ELSE a
           c == IF "ddown" \in presses THEN DdownPress(b) ELSE b
           d == IF "circle" \in presses THEN CirclePress(c, now) ELSE c
       IN  RenderCursor(d)

\* DeadlineStep with the deadline reached, not passed (>= for > in line 341)
DeadlineStep_AtDeadline(s, now) ==
  LET t == [s EXCEPT !.currentTime = now]
  IN  IF s.exc # "none" THEN s
      ELSE IF t.displayTimeOutFlag /\ (t.currentTime - t.savedTime >= t.displayTimeOut)
      THEN [clearDisplay(t) EXCEPT !.displayTimeOutFlag = FALSE,
                                   !.displayHomeScreenFlag = TRUE]
      ELSE t

\* lines 340-344
DeadlineStep(s, now) ==
  LET t == [s EXCEPT !.currentTime = now]
  IN  IF s.exc # "none" THEN s
      ELSE IF t.displayTimeOutFlag /\ (t.currentTime - t.savedTime > t.displayTimeOut)
      THEN [clearDisplay(t) EXCEPT !.displayTimeOutFlag = FALSE,
                                   !.displayHomeScreenFlag = TRUE]
      ELSE t

\* RefreshDue without the test of menuFlag (line 349)
RefreshDue_IgnoresMenu(s) ==
  /\ s.displayTimeOutFlag = FALSE
  /\ (s.currentTime - s.lastRefresh > refreshTime \/ s.displayHomeScreenFlag)

\* the home screen is refreshed in this tick (lines 349-350)
RefreshDue(s) ==
  /\ s.menuFlag = FALSE /\ s.displayTimeOutFlag = FALSE
  /\ (s.currentTime - s.lastRefresh > refreshTime \/ s.displayHomeScreenFlag)

\* lines 349-353; a failed battery query raises out of homeDisplayUpdate()
HomeStep(s, now, batOk, bat, joy) ==
  IF s.exc = "none" /\ RefreshDue(s)
  THEN IF batOk
       THEN [homeDisplayUpdate(s, bat, joy) EXCEPT
               !.lastRefresh = now, !.displayHomeScreenFlag = FALSE]
       ELSE [s EXCEPT !.exc = "error"]
  ELSE s

\* lines 385-398; a failed address query raises
IPStep(s, now, ipOk, ip) ==
  IF s.exc = "none" /\ s.menu["IP"]
  THEN IF ipOk
       THEN [lineTwoText(lineOneText(s, Blank), ip) EXCEPT
               !.menu = [s.menu EXCEPT !["IP"] = FALSE], !.newModeFlag = FALSE,
               !.mode = 0, !.savedTime = now, !.displayTimeOutFlag = TRUE,
               !.displayTimeOut = 5]
       ELSE [s EXCEPT !.exc = "error"]
  ELSE s

\* ExitStep without the raise of line 403
ExitStep_NoRaise(s) ==
  IF s.exc = "none" /\ s.menu["Exit"] THEN [s EXCEPT !.newModeFlag = FALSE] ELSE s

\* lines 400-403
ExitStep(s) ==
  IF s.exc = "none" /\ s.menu["Exit"]
  THEN [s EXCEPT !.newModeFlag = FALSE, !.exc = "stop"]
  ELSE s

\* lines 405-415
PowerStep(s) ==
  LET a == IF s.exc = "none" /\ s.menu["Shutdown"]
           THEN [s EXCEPT !.newModeFlag = FALSE, !.osAction = "sudo halt"] ELSE s
  IN  IF a.exc = "none" /\ a.menu["Reboot"]
      THEN [a EXCEPT !.newModeFlag = FALSE, !.osAction = "sudo reboot"] ELSE a

\* lines 417-422
NewModeStep(s) ==
  IF s.exc = "none" /\ s.newModeFlag
  THEN [lineOneText(clearDisplay(s), <<"New Mode: ", Item(s.mode)>>) EXCEPT
          !.newModeFlag = FALSE]
  ELSE s

----------------------------------------------------------------------------
Init ==
  /\ pc = "acquire"
  /\ menu = Only("Manual")
  /\ currentMenu = Only("Manual")
  /\ menuIndex = 0
  /\ lastMenuIndex = 0
  /\ menuFlag = FALSE
  /\ mode = 0
  /\ displayTimeOut = 1
  /\ displayTimeOutFlag = FALSE
  /\ savedTime = 0
  /\ currentTime = 0
  /\ newModeFlag = FALSE
  /\ lastRefresh = 0 - refreshTime
  /\ displayHomeScreenFlag = FALSE
  /\ motors = <<"none">>
  /\ line1 = Blank
  /\ line2 = Blank
  /\ osAction = "none"
  /\ selectPress = FALSE

ProgramVars ==
  <<menu, currentMenu, menuIndex, lastMenuIndex, menuFlag, mode, displayTimeOut, displayTimeOutFlag, savedTime, currentTime, newModeFlag,
    lastRefresh, displayHomeScreenFlag, osAction>>

\* AcquireOk starting the session with the menu closed
AcquireOk_ClosesMenu ==
  /\ pc = "acquire"
  /\ pc' = "loop"
  /\ selectPress' = FALSE
  /\ menuFlag' = FALSE
  /\ UNCHANGED <<menu, currentMenu, menuIndex, lastMenuIndex, mode, displayTimeOut,
                 displayTimeOutFlag, savedTime, currentTime, newModeFlag, lastRefresh,
                 displayHomeScreenFlag, osAction, motors, line1, line2>>

\* line 231: ControllerResource() binds a controller
AcquireOk ==
  /\ pc = "acquire"
  /\ pc' = "loop"
  /\ selectPress' = FALSE
  /\ UNCHANGED <<ProgramVars, motors, line1, line2>>

\* lines 425-433: IOError, no controller yet: the message is drawn and shown for
\* sleep(1), then the buffer is cleared; buttons pressed meanwhile are read by nobody
AcquireFail(presses) ==
  /\ pc = "acquire"
  /\ pc' = "acquire"
  /\ line1' = clearDisplay(lineTwoText(lineOneText(State, <<"No Controller">>),
                                       <<"  Connected">>)).line1
  /\ line2' = clearDisplay(lineTwoText(lineOneText(State, <<"No Controller">>),
                                       <<"  Connected">>)).line2
  /\ selectPress' = ("select" \in presses)
  /\ UNCHANGED <<ProgramVars, motors>>

\* Disconnect treated as a stop request
Disconnect_Stops ==
  /\ pc = "loop"
  /\ pc' = "raised"
  /\ selectPress' = FALSE
  /\ UNCHANGED <<ProgramVars, motors, line1, line2>>

\* line 236: joystick.connected is False, the with block is left
Disconnect ==
  /\ pc = "loop"
  /\ pc' = "acquire"
  /\ selectPress' = FALSE
  /\ UNCHANGED <<ProgramVars, motors, line1, line2>>

\* the queries a tick makes: the inputs are drawn only for the queries made
HomeInputs(s) ==
  IF s.exc = "none" /\ RefreshDue(s) THEN BOOLEAN \X BatReadings \X JoyLevels
  ELSE {<<TRUE, <<>>, "None">>}
IPInputs(s) ==
  IF s.exc = "none" /\ s.menu["IP"] THEN BOOLEAN \X IPReadings
  ELSE {<<TRUE, <<>>>>}

\* lines 417-422 after lines 385-415: the per-mode actions and the flash
ModeSteps(s, now, ipOk, ip) ==
  NewModeStep(PowerStep(ExitStep(IPStep(s, now, ipOk, ip))))

\* lines 238-344: the states of the program's variables at line 349, where the
\* home screen refresh is decided, of a pass of the loop body that starts in s,
\* reads these axes and presses and reads the clock dt seconds after the last reading
AtHomeStep(s, axes, presses, dt) ==
  {DeadlineStep(a, s.currentTime + dt) :
     a \in {ButtonStep(DriveStep(s, axes), presses, s.currentTime + dt)}}

\* lines 238-355: the states at line 362, where the per-mode actions start
AtModeSteps(s, axes, presses, dt) ==
  UNION {{HomeStep(b, s.currentTime + dt, h[1], h[2], h[3]) : h \in HomeInputs(b)} :
           b \in AtHomeStep(s, axes, presses, dt)}

\* lines 238-422: every state of the program's variables in which the pass can end
TickResultsOf(s, axes, presses, dt) ==
  UNION {{ModeSteps(c, s.currentTime + dt, i[1], i[2]) : i \in IPInputs(c)} :
           c \in AtModeSteps(s, axes, presses, dt)}

TickResults(axes, presses, dt) ==
  UNION {TickResultsOf(s, axes, presses, dt) : s \in {State}}

\* the inputs <<axes, presses, dt>> a tick that starts in s can read: the
\* guard of Tick
TickCasesOf(s) ==
  {c \in AxisSamples \X PressSets \X Steps : s.currentTime + c[3] <= MaxTime}
TickCases == TickCasesOf(State)

\* the states in which a tick can end that starts in a state of S from which the
\* loop goes on, and reads exactly the press of this one button
After(S, button) ==
  UNION {UNION {TickResultsOf(s, c[1], c[2], c[3]) :
                  c \in {d \in TickCasesOf(s) : d[2] = {button}}} :
           s \in {x \in S : x.exc = "none"}}

\* line 236: joystick.connected is True, and lines 238-422
Tick(axes, presses, dt) ==
  /\ pc = "loop"
  /\ currentTime + dt <= MaxTime
  /\ \E r \in TickResults(axes, presses, dt) :
       /\ pc' = CASE r.exc = "none" -> "loop"
                  [] r.exc = "stop" -> "raised"
                  [] OTHER -> "crashed"
       /\ selectPress' = ("select" \in presses)
       /\ motors' = r.motors
       /\ menu' = r.menu
       /\ currentMenu' = r.currentMenu
       /\ menuIndex' = r.menuIndex
       /\ lastMenuIndex' = r.lastMenuIndex
       /\ menuFlag' = r.menuFlag
       /\ mode' = r.mode
       /\ displayTimeOut' = r.displayTimeOut
       /\ displayTimeOutFlag' = r.displayTimeOutFlag
       /\ savedTime' = r.savedTime
       /\ currentTime' = r.currentTime
       /\ newModeFlag' = r.newModeFlag
       /\ lastRefresh' = r.lastRefresh
       /\ displayHomeScreenFlag' = r.displayHomeScreenFlag
       /\ line1' = r.line1
       /\ line2' = r.line2
       /\ osAction' = r.osAction

\* lines 435-444: the handler stops the motors and shows its message for sleep(1)
ShutdownHandler ==
  /\ pc = "raised"
  /\ pc' = "farewell"
  /\ motors' = StopCmd
  /\ line1' = <<"exited to ">>
  /\ line2' = <<"command line">>
  /\ UNCHANGED <<ProgramVars, selectPress>>

\* lines 444-446: sleep(1) is over, the display is blanked and the program ends
ShutdownFinish ==
  /\ pc = "farewell"
  /\ pc' = "exited"
  /\ line1' = Blank
  /\ line2' = Blank
  /\ UNCHANGED <<ProgramVars, motors, selectPress>>

Next ==
  \/ AcquireOk
  \/ \E presses \in PressSets : AcquireFail(presses)
  \/ Disconnect
  \/ \E axes \in AxisSamples, presses \in PressSets, dt \in Steps :
       Tick(axes, presses, dt)
  \/ ShutdownHandler
  \/ ShutdownFinish

Spec == Init /\ [][Next]_vars

\* the program is one thread that always takes its next step
FairSpec == Spec /\ WF_vars(Next)

----------------------------------------------------------------------------
(* Drive arbitration *)

\* C1: in every tick the drive arbitration issues setSpeeds(left, right), with the
\* mixer's output, exactly when Manual is active at the start of the tick and the
\* mixer's output is not (0, 0); in every other case it issues stop.  So no tick
\* that starts with Manual inactive issues setSpeeds, whatever is pressed in it.
C1_DriveArbitration ==
  [](
  pc = "loop" =>
    \A c \in TickCases : \A r \in TickResults(c[1], c[2], c[3]) :
      \E power \in {mixer(c[1][1], c[1][2], max_power)} :
        /\ r.motors \in {StopCmd, SetCmd(power)}
        /\ (r.motors = SetCmd(power)) <=> (menu["Manual"] /\ power # <<0, 0>>)
  )

\* a tick that started with Manual active issued setSpeeds and opened the menu
C1_Witness == pc = "loop" /\ motors[1] = "set" /\ menuFlag /\ ~menu["Manual"]

----------------------------------------------------------------------------
(* Stop request *)

Farewell == line1 = <<"exited to ">> /\ line2 = <<"command line">>

\* C2 as stated: a select press, made in any state, with the device bound or not,
\* leads to the motors stopped and the program ended.
C2_SelectAlwaysStops == selectPress ~> (pc = "exited" /\ motors = StopCmd)

\* C2 amended: a select press read by a tick (menu open or closed) ends that tick
\* with the stop request raised; the handler then stops the motors and shows the
\* farewell message, and then the program ends; the handler's steps can always be
\* taken, and no step (so no setSpeeds) follows the end.
C2_SelectStops ==
  /\ [][(pc = "loop" /\ selectPress') => pc' = "raised"]_vars
  /\ [][pc = "raised" => (pc' = "farewell" /\ motors' = StopCmd /\ Farewell')]_vars
  /\ [][pc = "farewell" => (pc' = "exited" /\ motors' = StopCmd)]_vars
  /\ [](pc = "raised" => ENABLED ShutdownHandler)
  /\ [](pc = "farewell" => ENABLED ShutdownFinish)
  /\ [](pc = "exited" => ~ENABLED Next)

\* select was pressed with the menu open, and the farewell message is shown
C2_Witness ==
  pc = "farewell" /\ selectPress /\ menuFlag /\ motors = StopCmd /\ Farewell

----------------------------------------------------------------------------
(* Disconnection *)

\* C3: whenever the tick loop has been left because the device disconnected, and
\* during the acquisition retries that follow, the last command given to the motors
\* is stop.
C3_StopOnDisconnect == (pc = "acquire" /\ motors # <<"none">>) => motors = StopCmd

\* C4: a disconnect is not terminal: the loop can always be left on a disconnect,
\* which leads to device acquisition with the motors' command untouched; from
\* acquisition the program only retries or enters the loop, never the stop handler
\* and never its end, without a command to the motors; and acquisition can always
\* be attempted again.
C4_DisconnectNotTerminal ==
  /\ [](pc = "loop" => ENABLED (Disconnect /\ pc' = "acquire" /\ motors' = motors))
  /\ [][pc = "acquire" => (pc' \in {"acquire", "loop"} /\ motors' = motors)]_vars
  /\ [](pc = "acquire" =>
         /\ ENABLED AcquireOk
         /\ ENABLED (\E presses \in PressSets : AcquireFail(presses)))

\* the motors were driven, the device disconnected, and an acquisition has failed
C4_Witness == pc = "acquire" /\ motors[1] = "set" /\ selectPress

----------------------------------------------------------------------------
(* Menu *)

Active(m) == {k \in Modes : m[k]}

\* C5: round trip of the menu.  A tick that opens the menu stores the flags in
\* currentMenu and keeps mode; a tick taken with the menu open that does not commit
\* keeps currentMenu and mode, whatever it moves; a tick that closes the menu without
\* a commit sets the flags to currentMenu and keeps mode.  So a close without commit
\* restores the flags and the mode index of before the open; in particular home
\* followed at once by home does.
C5_MenuRoundTrip ==
  [](
  pc = "loop" =>
    /\ \A c \in TickCases : \A r \in TickResults(c[1], c[2], c[3]) :
         ("circle" \notin c[2] /\ r.exc = "none") =>
           /\ (~menuFlag /\ r.menuFlag) => (r.currentMenu = menu /\ r.mode = mode)
           /\ (menuFlag /\ r.menuFlag) => (r.currentMenu = currentMenu /\ r.mode = mode)
           /\ (menuFlag /\ ~r.menuFlag) => (r.menu = currentMenu /\ r.mode = mode)
    /\ ~menuFlag =>
         /\ \A o \in After({State}, "home") : o.menuFlag /\ o.menu = AllFalse
         /\ \A r \in After(After({State}, "home"), "home") :
              ~r.menuFlag /\ r.menu = menu /\ r.mode = mode
  )

\* Line was committed, the menu was opened again, the cursor moved on and the menu
\* closed without a commit: Line is active again
C5_Witness ==
  /\ pc = "loop" /\ ~menuFlag /\ displayHomeScreenFlag
  /\ menu = Only("Line") /\ mode = 1 /\ menuIndex = 3

\* C6: at most one mode is active in every state; the commit of lines 310-319
\* leaves exactly the mode at the cursor active; and before any commit (displayTimeOut
\* still has its initial value 1, which every commit overwrites) Manual, and only
\* Manual, is active whenever the menu is closed.
C6_AtMostOneActive ==
  /\ Cardinality(Active(menu)) <= 1
  /\ (displayTimeOut = 1 /\ ~menuFlag) => menu = Only("Manual")
  /\ (pc = "loop" /\ menuFlag) =>
       \A r \in {CirclePress(s, currentTime) : s \in {State}} :
         Active(r.menu) = {Item(menuIndex)} /\ r.mode = menuIndex

\* Toxic was committed and is the one active mode
C6_Witness ==
  pc = "loop" /\ displayTimeOut = 2 /\ ~menuFlag /\ Active(menu) = {"Toxic"} /\ mode = 3

\* C7: after the IP one-shot (its 5 s deadline is armed and pending, the menu is
\* closed) IP is not active and the active mode is the first entry, Manual.
C7_IPOneShot ==
  (pc = "loop" /\ displayTimeOut = 5 /\ displayTimeOutFlag /\ ~menuFlag) =>
    (~menu["IP"] /\ mode = 0 /\ menu[Item(0)])

\* home, ddown, ddown, circle, one press per tick
Scenario == After(After(After(After({State}, "home"), "ddown"), "ddown"), "circle")

\* C8: a tick that reads circle (and no other menu button) with the menu open closes
\* the menu and leaves no mode active but the one at the cursor, which is active with
\* mode = cursor (but IP, whose one-shot has run by the end of the tick).  From the
\* initial state, home, ddown, ddown, circle leave Maze (index 2) active and Manual
\* inactive, and the tick that follows issues stop whatever its axes and presses.
C8_Commit ==
  [](
  /\ (pc = "loop" /\ menuFlag) =>
       \A c \in TickCases : \A r \in TickResults(c[1], c[2], c[3]) :
         ("circle" \in c[2] /\ c[2] \subseteq {"circle", "cross"}) =>
           /\ ~r.menuFlag
           /\ Active(r.menu) \subseteq {Item(menuIndex)}
           /\ Item(menuIndex) # "IP" => (r.menu[Item(menuIndex)] /\ r.mode = menuIndex)
  /\ Init =>
       /\ Scenario # {}
       /\ \A s \in Scenario :
            /\ s.exc = "none" /\ ~s.menuFlag
            /\ s.menu = Only(Item(2)) /\ s.mode = 2 /\ ~s.menu["Manual"]
            /\ \A c \in TickCasesOf(s) : \A r \in TickResultsOf(s, c[1], c[2], c[3]) :
                 r.motors = StopCmd
  )

\* Maze was committed and a later tick has issued stop
C8_Witness ==
  /\ pc = "loop" /\ ~menuFlag /\ menu = Only("Maze") /\ mode = 2 /\ menuIndex = 2
  /\ motors = StopCmd /\ line1 = <<"New Mode: ", "Maze">>

\* C9: the cursor stays in 0..len-1; with the menu open, ddown moves it to the next
\* index modulo the number of modes (the last wraps to 0) and a dup after it brings
\* it back; dup moves it to the previous index (0 wraps to the last) and a ddown
\* after it brings it back.
C9_Cycling ==
  [](
  /\ menuIndex \in 0..(menuLenght - 1)
  /\ (pc = "loop" /\ menuFlag) =>
       /\ After({State}, "ddown") # {} /\ After({State}, "dup") # {}
       /\ \A r \in After({State}, "ddown") :
            /\ r.menuIndex = (menuIndex + 1) % menuLenght
            /\ menuIndex = menuLenght - 1 => r.menuIndex = 0
            /\ \A q \in After({r}, "dup") : q.menuIndex = menuIndex
       /\ \A r \in After({State}, "dup") :
            /\ r.menuIndex = (menuIndex + menuLenght - 1) % menuLenght
            /\ menuIndex = 0 => r.menuIndex = menuLenght - 1
            /\ \A q \in After({r}, "ddown") : q.menuIndex = menuIndex
  )

\* the cursor is on the last item, which is rendered
C9_Witness ==
  pc = "loop" /\ menuFlag /\ menuIndex = menuLenght - 1 /\ line1 = <<"Reboot">>

----------------------------------------------------------------------------
(* Termination *)

Leaving == {"raised", "farewell", "exited"}

----------------------------------------------------------------------------
(* Queries of the operating system *)

\* C11: a failed battery or address query is recovered in the tick: the failure does
\* not leave the loop, and the program never ends with a command other than stop as
\* the last one given to the motors.
C11_QueryFailureRecovered ==
  /\ pc # "crashed"
  /\ pc \in {"crashed", "exited"} => motors = StopCmd

----------------------------------------------------------------------------
(* Modes while the menu is open *)

\* the modes whose flag makes lines 385-415 act
ActionModes == {"IP", "Exit", "Shutdown", "Reboot"}
\* the per-mode actions performed by a pass that is in state c at line 362
ActsAt(c) == {k \in ActionModes : c.exc = "none" /\ c.menu[k]}

\* C12 as stated: with the menu open at a tick boundary every mode is inactive, and a
\* tick that starts with the menu open issues no setSpeeds and performs no per-mode
\* action.
C12_NoActionWhileOpen ==
  (pc = "loop" /\ menuFlag) =>
    /\ menu = AllFalse
    /\ \A c \in TickCases :
         /\ \A r \in TickResults(c[1], c[2], c[3]) : r.motors = StopCmd
         /\ \A m \in AtModeSteps(State, c[1], c[2], c[3]) : ActsAt(m) = {}

\* C12 amended: with the menu open at a tick boundary every mode is inactive; a tick
\* that starts with the menu open issues no setSpeeds; it performs a per-mode action
\* only if it closes the menu, and the action is the one of the mode active after the
\* close: the mode at the cursor when circle (and not home) commits it, the mode of
\* the snapshot when home restores it.  A tick that reads only circle with the cursor
\* on such a mode does perform its action.
C12_NoModeArmed ==
  [](
  (pc = "loop" /\ menuFlag) =>
    /\ menu = AllFalse
    /\ \A c \in TickCases :
         /\ \A r \in TickResults(c[1], c[2], c[3]) : r.motors = StopCmd
         /\ \A m \in AtModeSteps(State, c[1], c[2], c[3]) :
              /\ ActsAt(m) # {} =>
                   /\ ~m.menuFlag /\ ActsAt(m) = {Item(m.mode)}
                   /\ \/ "circle" \in c[2] /\ "home" \notin c[2] /\ m.mode = m.menuIndex
                      \/ "home" \in c[2] /\ m.menu = currentMenu /\ m.mode = mode
              /\ (c[2] = {"circle"} /\ Item(menuIndex) \in ActionModes) =>
                   ActsAt(m) = {Item(menuIndex)}
  )

\* Reboot was committed from the open menu, which made that tick invoke the reboot,
\* and the menu is open again with every mode inactive
C12_Witness ==
  /\ pc = "loop" /\ menuFlag /\ menu = AllFalse /\ osAction = "sudo reboot"
  /\ currentMenu = Only("Reboot") /\ motors = StopCmd

----------------------------------------------------------------------------
(* Mixer bounds *)

\* the axis values of the grid: the multiples of 1/AxisDen in [-1, 1]
AxisGrid == (0 - AxisDen)..AxisDen

\* C13: for all yaw and throttle of the grid and max_power = 100, both outputs of the
\* mixer are at most max_power in absolute value, and mixer(0, 0) = (0, 0) (the mixer
\* is a function of its arguments alone: the grid is gone through once, in the initial
\* state); so is every command the drive arbitration has given to the motors.
C13_MixerBounded ==
  [](
  /\ Init =>
       /\ \A yaw \in AxisGrid, throttle \in AxisGrid :
            \E power \in {mixer(yaw, throttle, max_power)} :
              Abs(power[1]) <= max_power /\ Abs(power[2]) <= max_power
       /\ mixer(0, 0, max_power) = <<0, 0>>
  /\ motors[1] = "set" => (Abs(motors[2]) <= max_power /\ Abs(motors[3]) <= max_power)
  )

\* the mixer has turned full yaw and full throttle into (max_power, 0)
C13_Witness == pc = "loop" /\ ~menuFlag /\ motors = <<"set", max_power, 0>>

----------------------------------------------------------------------------
(* Cursor on opening *)

\* C14: a tick that opens the menu on a home press leaves the cursor on the active
\* mode index: menuIndex = mode right after the open.
C14_CursorAtActiveOnOpen ==
  (pc = "loop" /\ ~menuFlag) =>
    \A r \in After({State}, "home") : r.menuFlag => r.menuIndex = r.mode

----------------------------------------------------------------------------
(* Display lifecycle *)

\* the two lines of the home screen are drawn
HomeScreen(s) ==
  /\ Len(s.line1) > 0 /\ s.line1[1] = "Batt: "
  /\ Len(s.line2) > 0 /\ s.line2[1] \in {"Joy: ", "Joy: Not supported"}

\* C15: in every tick, the home screen refresh of lines 349-353 is entered only if,
\* after the deadline step of that tick, the menu is closed, no deadline is pending,
\* and the home-screen-due flag is set or more than refreshTime seconds have passed
\* since lastRefresh; it is entered whenever that holds; a refresh that ends draws the
\* home screen, clears the flag and sets lastRefresh to the time of the tick.  So a
\* refresh made with the flag clear comes more than refreshTime after lastRefresh.
C15_HomeRefresh ==
  [](
  pc = "loop" =>
    \A c \in TickCases : \A b \in AtHomeStep(State, c[1], c[2], c[3]) :
      \A h \in HomeInputs(b) :
        \E r \in {HomeStep(b, b.currentTime, h[1], h[2], h[3])} :
          /\ b.exc = "none" => b.currentTime = currentTime + c[3]
          /\ r # b <=>
               /\ b.exc = "none" /\ ~b.menuFlag /\ ~b.displayTimeOutFlag
               /\ b.displayHomeScreenFlag \/ b.currentTime - b.lastRefresh > refreshTime
          /\ (r # b /\ ~b.displayHomeScreenFlag) =>
               b.currentTime - b.lastRefresh > refreshTime
          /\ (r # b /\ r.exc = "none") =>
               /\ HomeScreen(r) /\ ~r.displayHomeScreenFlag
               /\ r.lastRefresh = b.currentTime
          /\ (r # b /\ r.exc # "none") => ~h[1]
  )

\* the home screen was refreshed by a tick, at a time later than the start
C15_Witness ==
  /\ pc = "loop" /\ ~menuFlag /\ ~displayTimeOutFlag /\ ~displayHomeScreenFlag
  /\ lastRefresh = currentTime /\ lastRefresh >= 2 /\ HomeScreen(State)
  /\ displayTimeOut = 1

\* the modes whose commit is followed by no action of lines 385-415
PlainModes == Modes \ ActionModes

\* C16: a tick that reads circle with the menu open and the cursor on a mode without
\* an action arms the deadline (savedTime = the time of the tick, displayTimeOut = 2)
\* and ends with "New Mode: <name>" on line 1.  While that deadline is pending with
\* the menu closed, a tick without presses whose time is at most savedTime + 2 leaves
\* the display and the deadline as they are; a tick without presses whose time is
\* later clears the display, unsets the deadline and marks the home screen due before
\* line 349, and refreshes the home screen in the same tick (the tick ends there when
\* the battery query fails).
C16_CommitDeadline ==
  /\ (pc = "loop" /\ menuFlag /\ Item(menuIndex) \in PlainModes) =>
       \A c \in {d \in TickCases : d[2] = {"circle"}} :
         \A r \in TickResults(c[1], c[2], c[3]) :
           /\ r.exc = "none" /\ ~r.menuFlag
           /\ r.displayTimeOutFlag /\ r.displayTimeOut = 2
           /\ r.savedTime = currentTime + c[3]
           /\ r.line1 = <<"New Mode: ", Item(menuIndex)>> /\ r.line2 = Blank
  /\ (pc = "loop" /\ ~menuFlag /\ displayTimeOutFlag /\ displayTimeOut = 2
        /\ Active(menu) \subseteq PlainModes) =>
       \A c \in {d \in TickCases : d[2] = {}} :
         /\ currentTime + c[3] <= savedTime + 2 =>
              \A r \in TickResults(c[1], c[2], c[3]) :
                /\ r.exc = "none" /\ r.line1 = line1 /\ r.line2 = line2
                /\ r.displayTimeOutFlag /\ r.savedTime = savedTime
                /\ r.displayTimeOut = 2
         /\ currentTime + c[3] > savedTime + 2 =>
              /\ \A b \in AtHomeStep(State, c[1], c[2], c[3]) :
                   /\ b.line1 = Blank /\ b.line2 = Blank
                   /\ ~b.displayTimeOutFlag /\ b.displayHomeScreenFlag
              /\ \A r \in TickResults(c[1], c[2], c[3]) :
                   /\ ~r.displayTimeOutFlag
                   /\ r.exc = "none" =>
                        /\ HomeScreen(r) /\ ~r.displayHomeScreenFlag
                        /\ r.lastRefresh = currentTime + c[3]
                   /\ r.exc # "none" => (r.exc = "error" /\ r.line1 = Blank)

\* Line was committed, its deadline has passed, and the tick that cleared the flash
\* has drawn the home screen
C16_Witness ==
  /\ pc = "loop" /\ ~menuFlag /\ menu = Only("Line") /\ displayTimeOut = 2
  /\ ~displayTimeOutFlag /\ currentTime - savedTime > 2
  /\ lastRefresh = currentTime /\ HomeScreen(State)

----------------------------------------------------------------------------
(* Buttons with the menu closed *)

\* the press sets with dup, ddown or circle and without home
NavPresses == {p \in PressSets : p \cap {"dup", "ddown", "circle"} # {} /\ "home" \notin p}

----------------------------------------------------------------------------
(* Session state across a reconnect *)

SessionVars ==
  <<menu, mode, menuIndex, lastMenuIndex, menuFlag, currentMenu, displayTimeOut,
    displayTimeOutFlag, savedTime, displayHomeScreenFlag, newModeFlag, lastRefresh>>

\* C18: the mode registry and the session state are changed by ticks only: the step
\* that leaves the loop on a disconnect, a failed acquisition with its back-off and a
\* successful acquisition leave all of them unchanged, so the first tick after a
\* reconnect starts from the mode and menu state the last tick before the disconnect
\* ended with.
C18_OnlyTicksChange ==
  /\ [][(pc = "acquire" \/ pc' = "acquire") => UNCHANGED SessionVars]_vars
  /\ [][(SessionVars' # SessionVars) => (pc = "loop" /\ pc' # "acquire")]_vars

\* the menu was open with the cursor moved when the device disconnected; an
\* acquisition has failed since, which cleared the display and nothing else
C18_Witness ==
  /\ pc = "acquire" /\ menuFlag /\ menuIndex = 2 /\ mode = 0 /\ displayTimeOut = 1
  /\ line1 = Blank /\ currentMenu = Only("Manual")

----------------------------------------------------------------------------
(* Display while the menu is open *)

\* what lines 279-285 and 330-332 draw on line 1
MenuTexts ==
  {<<"MODE: ", k>> : k \in Modes} \cup {<<"No mode selected">>} \cup {<<k>> : k \in Modes}

\* C19: at the end of every tick in which the menu is open, line 1 holds the
\* current-mode banner or the name of a mode.
C19_MenuShown ==
  pc = "loop" =>
    \A c \in TickCases : \A r \in TickResults(c[1], c[2], c[3]) :
      (r.exc = "none" /\ r.menuFlag) => r.line1 \in MenuTexts

----------------------------------------------------------------------------
(* Mode index and flags *)

\* C20: in every state, a mode whose flag is true is the mode at index 'mode'; the
\* same holds of the snapshot while the menu is open.
C20_ModeIndexAgrees ==
  /\ \A k \in Modes : menu[k] => k = Item(mode)
  /\ menuFlag => \A k \in Modes : currentMenu[k] => k = Item(mode)

\* Zombie was committed, the menu opened again, the cursor moved on and the menu
\* closed by home: the restored flag is the one at index 'mode'
C20_Witness ==
  pc = "loop" /\ ~menuFlag /\ menu = Only("Zombie") /\ mode = 4 /\ menuIndex = 6

====
